---- MODULE Spec2Model ----
(***************************************************************************)
(* rchidrun: runtime resolution and execution (src/src/main.rs).           *)
(*                                                                         *)
(* The state is the filesystem under SdkRoot (one entry per language: the  *)
(* language directory and the runtime.wasm file in it) and, per process,   *)
(* the position inside run_language / install_via_* / run_sdk together     *)
(* with the values those functions hold.  A process is one invocation of   *)
(* the binary; a finished process slot can be started again, which gives   *)
(* sequences of run requests.                                              *)
(***************************************************************************)
EXTENDS Integers, Sequences, FiniteSets, TLC

\* ---------------------------------------------------------------- bounds
MaxLen == 2          \* longest response body / artifact, in bytes
MaxLine == 2         \* longest line typed at a prompt, in characters

Procs == {1, 2}
Bytes == {1, 2}
Chars == {"y", "Y", "n", " "}
UrlChars == {"u", " "}
HomeDir == "/home/u"
NoHome == "<unset>"
Langs == {"python", "cobol"}

SeqsUpTo(S, n) == UNION {[1..k -> S] : k \in 0..n}
Bodies == SeqsUpTo(Bytes, MaxLen)
Lines == SeqsUpTo(Chars, MaxLine)
UrlLines == SeqsUpTo(UrlChars, MaxLine)

\* ------------------------------------------------------- pure functions
\* Mutant of sdk_dir: without HOME the path is taken relative to the root.
sdk_dir_Fallback(h) ==
    [ok |-> TRUE, path |-> <<IF h = NoHome THEN "/" ELSE h, ".rchidrun/plugins">>]

\* sdk_dir(): $HOME/.rchidrun/plugins, or an error when HOME is not set.
sdk_dir(h) ==
    IF h = NoHome THEN [ok |-> FALSE, path |-> <<>>]
    ELSE [ok |-> TRUE, path |-> <<h, ".rchidrun/plugins">>]

\* get_language_packages(): the fixed table, as a set of (key, value) pairs.
get_language_packages ==
    { <<"python", "wasmer/python">>,
      <<"javascript", "wasmer/quickjs">>,
      <<"ruby", "wasmer/ruby">> }

\* Mutant of is_supported_language: every language counts as supported.
is_supported_language_Always(language) == TRUE

is_supported_language(language) ==
    \E e \in get_language_packages : e[1] = language

\* get_wasmer_package(): Some(package) as a one-element set, None as {}.
get_wasmer_package(language) ==
    { e[2] : e \in {x \in get_language_packages : x[1] = language} }

IsSpace(c) == c = " "

RECURSIVE TrimStart(_)
TrimStart(s) ==
    IF s = <<>> THEN <<>>
    ELSE IF IsSpace(Head(s)) THEN TrimStart(Tail(s)) ELSE s

RECURSIVE TrimEnd(_)
TrimEnd(s) ==
    IF s = <<>> THEN <<>>
    ELSE IF IsSpace(s[Len(s)]) THEN TrimEnd(SubSeq(s, 1, Len(s) - 1)) ELSE s

\* str::trim(): strips leading and trailing whitespace.
Trim(s) == TrimEnd(TrimStart(s))

LowerChar(c) == IF c = "Y" THEN "y" ELSE c

\* Mutant of to_lowercase: the answer is compared as typed.
to_lowercase_Identity(s) == s

\* str::to_lowercase()
to_lowercase(s) == [i \in 1..Len(s) |-> LowerChar(s[i])]

\* sdk_dir().join(language): the language directory.
sdk_path(root, language) == Append(root, language)

\* sdk_dir().join(language).join("runtime.wasm")
artifactPath(root, language) == Append(sdk_path(root, language), "runtime.wasm")

\* write(2) of chunk at byte offset off: bytes past the chunk are kept, a gap
\* between the old end of file and off reads as zeroes.
WriteAt(data, off, chunk) ==
    LET n == IF Len(data) > off + Len(chunk) THEN Len(data) ELSE off + Len(chunk)
    IN [i \in 1..n |->
          IF i > off /\ i <= off + Len(chunk) THEN chunk[i - off]
          ELSE IF i <= Len(data) THEN data[i] ELSE 0]

\* Mutant of FileCreate: the file is opened for writing without truncation.
FileCreate_NoTruncate(entry) == [entry EXCEPT !.file = TRUE]

\* File::create(): creates the file or truncates an existing one to length 0.
FileCreate(entry) == [entry EXCEPT !.file = TRUE, !.data = <<>>]

\* fs::create_dir_all(): the language directory (and its parents) exist.
create_dir_all(entry) == [entry EXCEPT !.dir = TRUE]

\* Path::exists() on the artifact path.
exists(f, language) == f[language].file

NoEntry == [dir |-> FALSE, file |-> FALSE, data |-> <<>>]

\* The language argument of a command that has none (sdk-list).
NoLang == "<none>"

\* Entries that something else than this program may have put into SdkRoot: a
\* plain file, a directory, and a directory whose name is not valid Unicode
\* (OsStr::to_str gives None for it).
ExtraEntries ==
    { [name |-> "notes.txt", dir |-> FALSE, utf8 |-> TRUE],
      [name |-> "tools", dir |-> TRUE, utf8 |-> TRUE],
      [name |-> "caf<E9>", dir |-> TRUE, utf8 |-> FALSE] }

\* fs::read_dir(SdkRoot): the immediate entries, language directories included.
read_dir(f, ex) ==
    { [name |-> l, dir |-> TRUE, utf8 |-> TRUE] : l \in {x \in DOMAIN f : f[x].dir} }
        \cup ex

\* Mutant of installed_names: the is_dir() test is missing.
installed_names_NoDirTest(entries) ==
    { e.name : e \in {x \in entries : x.utf8} }

\* sdk_list, lines 142-148: the names printed for a set of entries.
installed_names(entries) ==
    { e.name : e \in {x \in entries : x.dir /\ x.utf8} }

\* ----------------------------------------------------------------- state
VARIABLES
    fs,         \* fs[L]: directory SdkRoot/L, file SdkRoot/L/runtime.wasm, its bytes
    pc,         \* pc[p]: position of process p
    home,       \* home[p]: value of $HOME in process p
    lang,       \* lang[p]: the language argument of the run command
    line,       \* line[p]: the raw line last read from standard input
    url,        \* url[p]: the url passed to install_via_url
    body,       \* body[p]: the response body being copied
    off,        \* off[p]: offset of the open artifact file handle
    args,       \* args[p]: argument vector of the wasmer subprocess, <<>> if none
    loaded,     \* loaded[p]: what Module::from_file read
    trace,      \* trace[p]: the steps of the current run, in order
    fs0,        \* fs0[p]: the filesystem when the current run started
    outcome,    \* outcome[p]: how the resolution flow ended
    engine,     \* engine[p]: result of run_sdk
    exitCode,   \* exitCode[p]: process exit status, -1 while running
    raced,      \* processes whose artifact another process wrote to between
                \* their File::create and their Module::from_file
    installedOk,\* languages for which some installer has returned Ok
    extras,     \* entries of SdkRoot that no installer of this program made
    listed,     \* listed[p]: the names sdk_list printed under "Installed SDKs:"
    table       \* table[p]: the (language, package) lines sdk_list printed

vars == <<fs, pc, home, lang, line, url, body, off, args, loaded, trace, fs0,
          outcome, engine, exitCode, raced, installedOk, extras, listed, table>>

listVars == <<extras, listed, table>>

\* The state before the first request, with the given foreign entries in SdkRoot.
InitWith(ex) ==
    /\ fs = [l \in Langs |-> NoEntry]
    /\ pc = [p \in Procs |-> "Idle"]
    /\ home = [p \in Procs |-> HomeDir]
    /\ lang = [p \in Procs |-> "python"]
    /\ line = [p \in Procs |-> <<>>]
    /\ url = [p \in Procs |-> <<>>]
    /\ body = [p \in Procs |-> <<>>]
    /\ off = [p \in Procs |-> 0]
    /\ args = [p \in Procs |-> <<>>]
    /\ loaded = [p \in Procs |-> <<>>]
    /\ trace = [p \in Procs |-> <<>>]
    /\ fs0 = [p \in Procs |-> fs]
    /\ outcome = [p \in Procs |-> "None"]
    /\ engine = [p \in Procs |-> "None"]
    /\ exitCode = [p \in Procs |-> -1]
    /\ raced = {}
    /\ installedOk = {}
    /\ extras = ex
    /\ listed = [p \in Procs |-> {}]
    /\ table = [p \in Procs |-> {}]

\* A fresh home directory: nothing under SdkRoot.
Init == InitWith({})

\* ---------------------------------------------------------------- helpers
Log(p, e) == trace' = [trace EXCEPT ![p] = Append(@, e)]

LogAll(p, es) == trace' = [trace EXCEPT ![p] = @ \o es]

\* The processes that hold the artifact of lang[p] open for writing, or whose
\* installer has returned and which have not yet loaded the artifact, when p
\* writes to it.
Overlapped(p) ==
    { q \in Procs \ {p} :
        /\ lang[q] = lang[p]
        /\ \/ pc[q] \in {"get", "copy"}
           \/ /\ pc[q] = "run_sdk"
              /\ \E i \in 1..Len(trace[q]) : trace[q][i] = "InstallOk" }

\* Mutant of Fail: a declined installation ends the process with status 0.
Fail_AbortedExitsZero(p, o) ==
    /\ pc' = [pc EXCEPT ![p] = "Done"]
    /\ outcome' = [outcome EXCEPT ![p] = o]
    /\ exitCode' = [exitCode EXCEPT ![p] = IF o = "Aborted" THEN 0 ELSE 1]

\* main(): an Err from run_language is returned from main (exit status 1).
Fail(p, o) ==
    /\ pc' = [pc EXCEPT ![p] = "Done"]
    /\ outcome' = [outcome EXCEPT ![p] = o]
    /\ exitCode' = [exitCode EXCEPT ![p] = 1]

\* ---------------------------------------------------------------- actions
\* main(): `run <language> <script>` starts run_language in a new process.
StartRun(p, l, h) ==
    /\ pc[p] \in {"Idle", "Done"}
    /\ pc' = [pc EXCEPT ![p] = "CacheCheck"]
    /\ home' = [home EXCEPT ![p] = h]
    /\ lang' = [lang EXCEPT ![p] = l]
    /\ line' = [line EXCEPT ![p] = <<>>]
    /\ url' = [url EXCEPT ![p] = <<>>]
    /\ body' = [body EXCEPT ![p] = <<>>]
    /\ off' = [off EXCEPT ![p] = 0]
    /\ args' = [args EXCEPT ![p] = <<>>]
    /\ loaded' = [loaded EXCEPT ![p] = <<>>]
    /\ trace' = [trace EXCEPT ![p] = <<>>]
    /\ fs0' = [fs0 EXCEPT ![p] = fs]
    /\ outcome' = [outcome EXCEPT ![p] = "None"]
    /\ engine' = [engine EXCEPT ![p] = "None"]
    /\ exitCode' = [exitCode EXCEPT ![p] = -1]
    /\ raced' = raced \ {p}
    /\ UNCHANGED fs
    /\ listed' = [listed EXCEPT ![p] = {}]
    /\ table' = [table EXCEPT ![p] = {}]
    /\ UNCHANGED <<extras, installedOk>>

\* Mutant of CacheCheck: on a miss the engine is entered without installing.
CacheCheck_SkipInstall(p) ==
    /\ pc[p] = "CacheCheck"
    /\ IF ~sdk_dir(home[p]).ok
       THEN /\ Fail(p, "ConfigurationError")
            /\ Log(p, "ConfigurationError")
       ELSE /\ pc' = [pc EXCEPT ![p] = "run_sdk"]
            /\ Log(p, IF exists(fs, lang[p]) THEN "Hit" ELSE "Miss")
            /\ UNCHANGED <<outcome, exitCode>>
    /\ UNCHANGED <<fs, raced, home, lang, line, url, body, off, args, loaded, fs0, engine>>
    /\ UNCHANGED <<installedOk, listVars>>

\* Mutant of CacheCheck: the Registry is consulted before the artifact, so a
\* supported language is prompted for even when its artifact exists.
CacheCheck_RegistryFirst(p) ==
    /\ pc[p] = "CacheCheck"
    /\ IF ~sdk_dir(home[p]).ok
       THEN /\ Fail(p, "ConfigurationError")
            /\ Log(p, "ConfigurationError")
       ELSE /\ IF is_supported_language(lang[p])
               THEN /\ pc' = [pc EXCEPT ![p] = "PromptUser"]
                    /\ Log(p, "Miss")
               ELSE IF exists(fs, lang[p])
               THEN /\ pc' = [pc EXCEPT ![p] = "run_sdk"]
                    /\ Log(p, "Hit")
               ELSE /\ pc' = [pc EXCEPT ![p] = "RequestUrl"]
                    /\ Log(p, "Miss")
            /\ UNCHANGED <<outcome, exitCode>>
    /\ UNCHANGED <<fs, raced, home, lang, line, url, body, off, args, loaded, fs0, engine>>
    /\ UNCHANGED <<installedOk, listVars>>

\* run_language, lines 113-118 and 128: sdk_dir()?, the exists() test and the
\* is_supported_language() branch.
CacheCheck(p) ==
    /\ pc[p] = "CacheCheck"
    /\ IF ~sdk_dir(home[p]).ok
       THEN /\ Fail(p, "ConfigurationError")
            /\ Log(p, "ConfigurationError")
       ELSE /\ IF exists(fs, lang[p])
               THEN /\ pc' = [pc EXCEPT ![p] = "run_sdk"]
                    /\ Log(p, "Hit")
               ELSE /\ pc' = [pc EXCEPT ![p] =
                          IF is_supported_language(lang[p])
                          THEN "PromptUser" ELSE "RequestUrl"]
                    /\ Log(p, "Miss")
            /\ UNCHANGED <<outcome, exitCode>>
    /\ UNCHANGED <<fs, raced, home, lang, line, url, body, off, args, loaded, fs0, engine>>
    /\ UNCHANGED <<installedOk, listVars>>

\* Mutant of PromptUser: an answer that begins with y counts as yes.
PromptUser_PrefixMatch(p, input) ==
    /\ pc[p] = "PromptUser"
    /\ line' = [line EXCEPT ![p] = input]
    /\ LogAll(p, <<"Prompt", "Answer">>)
    /\ IF Trim(input) # <<>> /\ to_lowercase(Trim(input))[1] = "y"
       THEN /\ pc' = [pc EXCEPT ![p] = "install_via_wasmer"]
            /\ UNCHANGED <<outcome, exitCode>>
       ELSE Fail(p, "Aborted")
    /\ UNCHANGED <<fs, raced, home, lang, url, body, off, args, loaded, fs0, engine>>
    /\ UNCHANGED <<installedOk, listVars>>

\* Mutant of PromptUser: any other answer than y asks again.
PromptUser_Reprompt(p, input) ==
    /\ pc[p] = "PromptUser"
    /\ line' = [line EXCEPT ![p] = input]
    /\ IF to_lowercase(Trim(input)) = <<"y">>
       THEN /\ pc' = [pc EXCEPT ![p] = "install_via_wasmer"]
            /\ LogAll(p, <<"Prompt", "Answer">>)
       ELSE /\ UNCHANGED <<pc, trace>>
    /\ UNCHANGED <<fs, raced, home, lang, url, body, off, args, loaded, fs0, engine,
                   outcome, exitCode>>
    /\ UNCHANGED <<installedOk, listVars>>

\* run_language, lines 119-127: the yes/no prompt.
PromptUser(p, input) ==
    /\ pc[p] = "PromptUser"
    /\ line' = [line EXCEPT ![p] = input]
    /\ LogAll(p, <<"Prompt", "Answer">>)
    /\ IF to_lowercase(Trim(input)) = <<"y">>
       THEN /\ pc' = [pc EXCEPT ![p] = "install_via_wasmer"]
            /\ UNCHANGED <<outcome, exitCode>>
       ELSE Fail(p, "Aborted")
    /\ UNCHANGED <<fs, raced, home, lang, url, body, off, args, loaded, fs0, engine>>
    /\ UNCHANGED <<installedOk, listVars>>

\* run_language, lines 120-121 and 130-131: flush()? or read_line()? fails.
PromptError(p) ==
    /\ pc[p] \in {"PromptUser", "RequestUrl"}
    /\ LogAll(p, <<IF pc[p] = "PromptUser" THEN "Prompt" ELSE "UrlPrompt", "PromptError">>)
    /\ Fail(p, "PromptError")
    /\ UNCHANGED <<fs, raced, home, lang, line, url, body, off, args, loaded, fs0, engine>>
    /\ UNCHANGED <<installedOk, listVars>>

\* run_language, lines 129-132: the URL prompt.
RequestUrl(p, input) ==
    /\ pc[p] = "RequestUrl"
    /\ line' = [line EXCEPT ![p] = input]
    /\ url' = [url EXCEPT ![p] = Trim(input)]
    /\ LogAll(p, <<"UrlPrompt", "UrlAnswer">>)
    /\ pc' = [pc EXCEPT ![p] = "install_via_url"]
    /\ UNCHANGED <<fs, raced, home, lang, body, off, args, loaded, fs0, outcome, engine,
                   exitCode>>
    /\ UNCHANGED <<installedOk, listVars>>

\* Mutant of WasmerPrepare: the directory is created before the package is
\* looked up.
WasmerPrepare_DirFirst(p, dirOk) ==
    /\ pc[p] = "install_via_wasmer"
    /\ IF ~sdk_dir(home[p]).ok
       THEN /\ LogAll(p, <<"InstallViaRegistry", "ConfigurationError">>)
            /\ Fail(p, "ConfigurationError")
            /\ UNCHANGED <<fs, raced>>
       ELSE IF ~dirOk
       THEN /\ LogAll(p, <<"InstallViaRegistry", "FilesystemError">>)
            /\ Fail(p, "Failed")
            /\ UNCHANGED <<fs, raced>>
       ELSE IF get_wasmer_package(lang[p]) = {}
       THEN /\ LogAll(p, <<"InstallViaRegistry", "UnsupportedLanguage">>)
            /\ Fail(p, "Failed")
            /\ fs' = [l \in DOMAIN fs |-> IF l = lang[p] THEN create_dir_all(fs[l]) ELSE fs[l]]
            /\ UNCHANGED raced
       ELSE /\ Log(p, "InstallViaRegistry")
            /\ fs' = [fs EXCEPT ![lang[p]] = create_dir_all(@)]
            /\ UNCHANGED raced
            /\ pc' = [pc EXCEPT ![p] = "wasmer_status"]
            /\ UNCHANGED <<outcome, exitCode>>
    /\ UNCHANGED <<home, lang, line, url, body, off, args, loaded, fs0, engine>>
    /\ UNCHANGED <<installedOk, listVars>>

\* install_via_wasmer, lines 63-66: package lookup, sdk_dir()?, create_dir_all()?.
WasmerPrepare(p, dirOk) ==
    /\ pc[p] = "install_via_wasmer"
    /\ IF get_wasmer_package(lang[p]) = {}
       THEN /\ LogAll(p, <<"InstallViaRegistry", "UnsupportedLanguage">>)
            /\ Fail(p, "Failed")
            /\ UNCHANGED <<fs, raced>>
       ELSE IF ~sdk_dir(home[p]).ok
       THEN /\ LogAll(p, <<"InstallViaRegistry", "ConfigurationError">>)
            /\ Fail(p, "ConfigurationError")
            /\ UNCHANGED <<fs, raced>>
       ELSE IF dirOk
       THEN /\ Log(p, "InstallViaRegistry")
            /\ fs' = [fs EXCEPT ![lang[p]] = create_dir_all(@)]
            /\ UNCHANGED raced
            /\ pc' = [pc EXCEPT ![p] = "wasmer_status"]
            /\ UNCHANGED <<outcome, exitCode>>
       ELSE /\ LogAll(p, <<"InstallViaRegistry", "FilesystemError">>)
            /\ Fail(p, "Failed")
            /\ UNCHANGED <<fs, raced>>
    /\ UNCHANGED <<home, lang, line, url, body, off, args, loaded, fs0, engine>>
    /\ UNCHANGED <<installedOk, listVars>>

\* install_via_wasmer, lines 67-70: the wasmer executable cannot be launched.
WasmerUnavailable(p) ==
    /\ pc[p] = "wasmer_status"
    /\ Log(p, "PackageManagerUnavailable")
    /\ Fail(p, "Failed")
    /\ UNCHANGED <<fs, raced, home, lang, line, url, body, off, args, loaded, fs0, engine>>
    /\ UNCHANGED <<installedOk, listVars>>

\* The argument vector built on line 68.
WasmerArgs(p) ==
    LET package == CHOOSE x \in get_wasmer_package(lang[p]) : TRUE
    IN <<"wasmer", "install", package, "--to",
         sdk_path(sdk_dir(home[p]).path, lang[p])>>

\* Mutant of WasmerStatus: the exit status of the subprocess is not looked at.
WasmerStatus_IgnoreStatus(p, success, wrote, data) ==
    /\ pc[p] = "wasmer_status"
    /\ args' = [args EXCEPT ![p] = WasmerArgs(p)]
    /\ fs' = IF wrote
             THEN [fs EXCEPT ![lang[p]] = [dir |-> TRUE, file |-> TRUE, data |-> data]]
             ELSE fs
    /\ raced' = IF wrote THEN raced \cup Overlapped(p) ELSE raced
    /\ Log(p, IF success THEN "InstallOk" ELSE "InstallFailed")
    /\ pc' = [pc EXCEPT ![p] = "run_sdk"]
    /\ UNCHANGED <<home, lang, line, url, body, off, loaded, fs0, engine, outcome,
                   exitCode>>
    /\ installedOk' = IF success THEN installedOk \cup {lang[p]} ELSE installedOk
    /\ UNCHANGED listVars

\* install_via_wasmer, lines 67-76: the subprocess runs and exits.  What it
\* leaves in the target directory is its own business: it may or may not
\* write runtime.wasm there (wrote), with any content (data); the code looks
\* at the exit status only.
WasmerStatus(p, success, wrote, data) ==
    /\ pc[p] = "wasmer_status"
    /\ args' = [args EXCEPT ![p] = WasmerArgs(p)]
    /\ fs' = IF wrote
             THEN [fs EXCEPT ![lang[p]] = [dir |-> TRUE, file |-> TRUE, data |-> data]]
             ELSE fs
    /\ raced' = IF wrote THEN raced \cup Overlapped(p) ELSE raced
    /\ IF success
       THEN /\ Log(p, "InstallOk")
            /\ pc' = [pc EXCEPT ![p] = "run_sdk"]
            /\ UNCHANGED <<outcome, exitCode>>
       ELSE /\ Log(p, "InstallFailed")
            /\ Fail(p, "Failed")
    /\ UNCHANGED <<home, lang, line, url, body, off, loaded, fs0, engine>>
    /\ installedOk' = IF success THEN installedOk \cup {lang[p]} ELSE installedOk
    /\ UNCHANGED listVars

\* install_via_url, lines 80-82: sdk_dir()?, create_dir_all()?.
UrlPrepare(p, dirOk) ==
    /\ pc[p] = "install_via_url"
    /\ IF sdk_dir(home[p]).ok /\ dirOk
       THEN /\ Log(p, "InstallViaUrl")
            /\ fs' = [fs EXCEPT ![lang[p]] = create_dir_all(@)]
            /\ UNCHANGED raced
            /\ pc' = [pc EXCEPT ![p] = "File_create"]
            /\ UNCHANGED <<outcome, exitCode>>
       ELSE /\ LogAll(p, <<"InstallViaUrl", "FilesystemError">>)
            /\ Fail(p, "Failed")
            /\ UNCHANGED <<fs, raced>>
    /\ UNCHANGED <<home, lang, line, url, body, off, args, loaded, fs0, engine>>
    /\ UNCHANGED <<installedOk, listVars>>

\* install_via_url, lines 83-84: File::create()?.
UrlCreate(p, fileOk) ==
    /\ pc[p] = "File_create"
    /\ IF fileOk
       THEN /\ fs' = [fs EXCEPT ![lang[p]] = FileCreate(@)]
            /\ raced' = raced \cup Overlapped(p)
            /\ off' = [off EXCEPT ![p] = 0]
            /\ pc' = [pc EXCEPT ![p] = "get"]
            /\ UNCHANGED <<outcome, exitCode, trace>>
       ELSE /\ Log(p, "FilesystemError")
            /\ Fail(p, "Failed")
            /\ UNCHANGED <<fs, raced, off>>
    /\ UNCHANGED <<home, lang, line, url, body, args, loaded, fs0, engine>>
    /\ UNCHANGED <<installedOk, listVars>>

\* install_via_url, line 85: the blocking GET answers with a body.
UrlGet(p, b) ==
    /\ pc[p] = "get"
    /\ body' = [body EXCEPT ![p] = b]
    /\ pc' = [pc EXCEPT ![p] = "copy"]
    /\ UNCHANGED <<fs, raced, home, lang, line, url, off, args, loaded, trace, fs0, outcome,
                   engine, exitCode>>
    /\ UNCHANGED <<installedOk, listVars>>

\* install_via_url, lines 85-86: get() fails, or the body breaks off inside copy().
DownloadFailed(p) ==
    /\ pc[p] \in {"get", "copy"}
    /\ pc[p] = "copy" => off[p] < Len(body[p])
    /\ Log(p, "DownloadFailed")
    /\ Fail(p, "Failed")
    /\ UNCHANGED <<fs, raced, home, lang, line, url, body, off, args, loaded, fs0, engine>>
    /\ UNCHANGED <<installedOk, listVars>>

\* install_via_url, line 86: io::copy writes the next n bytes of the body
\* through the file handle.
UrlCopyChunk(p, n) ==
    /\ pc[p] = "copy"
    /\ n >= 1
    /\ off[p] + n <= Len(body[p])
    /\ fs' = [fs EXCEPT ![lang[p]].data =
                WriteAt(@, off[p], SubSeq(body[p], off[p] + 1, off[p] + n))]
    /\ raced' = raced \cup Overlapped(p)
    /\ off' = [off EXCEPT ![p] = @ + n]
    /\ UNCHANGED <<pc, home, lang, line, url, body, args, loaded, trace, fs0, outcome,
                   engine, exitCode>>
    /\ UNCHANGED <<installedOk, listVars>>

\* install_via_url, lines 86-88: the body is exhausted, copy() and the
\* function return Ok.
UrlCopyDone(p) ==
    /\ pc[p] = "copy"
    /\ off[p] = Len(body[p])
    /\ Log(p, "InstallOk")
    /\ pc' = [pc EXCEPT ![p] = "run_sdk"]
    /\ UNCHANGED <<fs, raced, home, lang, line, url, body, off, args, loaded, fs0, outcome,
                   engine, exitCode>>
    /\ installedOk' = installedOk \cup {lang[p]}
    /\ UNCHANGED listVars

\* Mutant of RunSdk: the module is taken from what the artifact held when the
\* process started (a cache between the installer and the engine).
RunSdk_Cached(p, valid) ==
    /\ pc[p] = "run_sdk"
    /\ Log(p, "Engine")
    /\ outcome' = [outcome EXCEPT ![p] = "Ready"]
    /\ IF ~fs[lang[p]].file
       THEN /\ engine' = [engine EXCEPT ![p] = "ModuleNotFound"]
            /\ pc' = [pc EXCEPT ![p] = "Done"]
            /\ exitCode' = [exitCode EXCEPT ![p] = 1]
            /\ UNCHANGED loaded
       ELSE /\ loaded' = [loaded EXCEPT ![p] = fs0[p][lang[p]].data]
            /\ IF valid
               THEN /\ pc' = [pc EXCEPT ![p] = "instantiate"]
                    /\ UNCHANGED <<engine, exitCode>>
               ELSE /\ engine' = [engine EXCEPT ![p] = "ModuleLoadError"]
                    /\ pc' = [pc EXCEPT ![p] = "Done"]
                    /\ exitCode' = [exitCode EXCEPT ![p] = 1]
    /\ UNCHANGED <<fs, raced, home, lang, line, url, body, off, args, fs0>>
    /\ UNCHANGED <<installedOk, listVars>>

\* Mutant of RunSdk: the artifact is opened with the create flag, so a missing
\* one is made (empty) and then rejected as a module.
RunSdk_CreatesMissing(p, valid) ==
    /\ pc[p] = "run_sdk"
    /\ Log(p, "Engine")
    /\ outcome' = [outcome EXCEPT ![p] = "Ready"]
    /\ IF ~fs[lang[p]].file
       THEN /\ fs' = [fs EXCEPT ![lang[p]] = FileCreate(@)]
            /\ engine' = [engine EXCEPT ![p] = "ModuleLoadError"]
            /\ pc' = [pc EXCEPT ![p] = "Done"]
            /\ exitCode' = [exitCode EXCEPT ![p] = 1]
            /\ UNCHANGED loaded
       ELSE /\ loaded' = [loaded EXCEPT ![p] = fs[lang[p]].data]
            /\ UNCHANGED fs
            /\ IF valid
               THEN /\ pc' = [pc EXCEPT ![p] = "instantiate"]
                    /\ UNCHANGED <<engine, exitCode>>
               ELSE /\ engine' = [engine EXCEPT ![p] = "ModuleLoadError"]
                    /\ pc' = [pc EXCEPT ![p] = "Done"]
                    /\ exitCode' = [exitCode EXCEPT ![p] = 1]
    /\ UNCHANGED <<raced, home, lang, line, url, body, off, args, fs0>>
    /\ UNCHANGED <<installedOk, listVars>>

\* run_sdk, lines 92-96: sdk_dir()? and Module::from_file()?.  An absent file
\* is ModuleNotFound; bytes the engine rejects are ModuleLoadError.
RunSdk(p, valid) ==
    /\ pc[p] = "run_sdk"
    /\ Log(p, "Engine")
    /\ outcome' = [outcome EXCEPT ![p] = "Ready"]
    /\ IF ~sdk_dir(home[p]).ok \/ ~fs[lang[p]].file
       THEN /\ engine' = [engine EXCEPT ![p] = "ModuleNotFound"]
            /\ pc' = [pc EXCEPT ![p] = "Done"]
            /\ exitCode' = [exitCode EXCEPT ![p] = 1]
            /\ UNCHANGED loaded
       ELSE /\ loaded' = [loaded EXCEPT ![p] = fs[lang[p]].data]
            /\ IF valid
               THEN /\ pc' = [pc EXCEPT ![p] = "instantiate"]
                    /\ UNCHANGED <<engine, exitCode>>
               ELSE /\ engine' = [engine EXCEPT ![p] = "ModuleLoadError"]
                    /\ pc' = [pc EXCEPT ![p] = "Done"]
                    /\ exitCode' = [exitCode EXCEPT ![p] = 1]
    /\ UNCHANGED <<fs, raced, home, lang, line, url, body, off, args, fs0>>
    /\ UNCHANGED <<installedOk, listVars>>

EngineResults == {"ContextError", "InstantiateError", "EntryPointMissing",
                  "ExecutionTrap", "Ok"}

\* Mutant of Instantiate: after a trap the entry point is invoked again.
Instantiate_RetryOnTrap(p, r) ==
    /\ pc[p] = "instantiate"
    /\ engine' = [engine EXCEPT ![p] = r]
    /\ IF r \in {"ExecutionTrap", "Ok"} THEN Log(p, "Invoke") ELSE UNCHANGED trace
    /\ pc' = [pc EXCEPT ![p] = IF r = "ExecutionTrap" /\ engine[p] = "None"
                                 THEN "instantiate" ELSE "Done"]
    /\ exitCode' = [exitCode EXCEPT ![p] =
          IF r = "Ok" THEN 0 ELSE IF r = "ExecutionTrap" /\ engine[p] = "None" THEN @ ELSE 1]
    /\ UNCHANGED <<fs, raced, home, lang, line, url, body, off, args, loaded, fs0, outcome>>
    /\ UNCHANGED <<installedOk, listVars>>

\* run_sdk, lines 97-109: context, linker, instantiate, get_func("_start"),
\* call.  r is the first step that fails, or Ok.
Instantiate(p, r) ==
    /\ pc[p] = "instantiate"
    /\ engine' = [engine EXCEPT ![p] = r]
    /\ IF r \in {"ExecutionTrap", "Ok"} THEN Log(p, "Invoke") ELSE UNCHANGED trace
    /\ pc' = [pc EXCEPT ![p] = "Done"]
    /\ exitCode' = [exitCode EXCEPT ![p] = IF r = "Ok" THEN 0 ELSE 1]
    /\ UNCHANGED <<fs, raced, home, lang, line, url, body, off, args, loaded, fs0, outcome>>
    /\ UNCHANGED <<installedOk, listVars>>

\* main(): `sdk-list` starts sdk_list in a new process.
StartList(p, h) ==
    /\ pc[p] \in {"Idle", "Done"}
    /\ pc' = [pc EXCEPT ![p] = "sdk_list"]
    /\ home' = [home EXCEPT ![p] = h]
    /\ lang' = [lang EXCEPT ![p] = NoLang]
    /\ line' = [line EXCEPT ![p] = <<>>]
    /\ url' = [url EXCEPT ![p] = <<>>]
    /\ body' = [body EXCEPT ![p] = <<>>]
    /\ off' = [off EXCEPT ![p] = 0]
    /\ args' = [args EXCEPT ![p] = <<>>]
    /\ loaded' = [loaded EXCEPT ![p] = <<>>]
    /\ trace' = [trace EXCEPT ![p] = <<>>]
    /\ fs0' = [fs0 EXCEPT ![p] = fs]
    /\ outcome' = [outcome EXCEPT ![p] = "None"]
    /\ engine' = [engine EXCEPT ![p] = "None"]
    /\ exitCode' = [exitCode EXCEPT ![p] = -1]
    /\ raced' = raced \ {p}
    /\ listed' = [listed EXCEPT ![p] = {}]
    /\ table' = [table EXCEPT ![p] = {}]
    /\ UNCHANGED <<fs, extras, installedOk>>

\* The language names install_via_wasmer is called with directly: those of
\* the run requests and case variants of a Registry key.
CallNames == Langs \cup {"Python", "PYTHON"}

\* install_via_wasmer(language) called on its own, as a caller other than
\* run_language may: no cache check and no Registry test precede it.
CallInstallViaWasmer(p, name, h) ==
    /\ pc[p] \in {"Idle", "Done"}
    /\ pc' = [pc EXCEPT ![p] = "install_via_wasmer"]
    /\ home' = [home EXCEPT ![p] = h]
    /\ lang' = [lang EXCEPT ![p] = name]
    /\ line' = [line EXCEPT ![p] = <<>>]
    /\ url' = [url EXCEPT ![p] = <<>>]
    /\ body' = [body EXCEPT ![p] = <<>>]
    /\ off' = [off EXCEPT ![p] = 0]
    /\ args' = [args EXCEPT ![p] = <<>>]
    /\ loaded' = [loaded EXCEPT ![p] = <<>>]
    /\ trace' = [trace EXCEPT ![p] = <<"Call">>]
    /\ fs0' = [fs0 EXCEPT ![p] = fs]
    /\ outcome' = [outcome EXCEPT ![p] = "None"]
    /\ engine' = [engine EXCEPT ![p] = "None"]
    /\ exitCode' = [exitCode EXCEPT ![p] = -1]
    /\ raced' = raced \ {p}
    /\ listed' = [listed EXCEPT ![p] = {}]
    /\ table' = [table EXCEPT ![p] = {}]
    /\ UNCHANGED <<fs, extras, installedOk>>

\* Mutant of SdkList: an SdkRoot that cannot be read is an error.
SdkList_UnreadableFails(p, readable) ==
    /\ pc[p] = "sdk_list"
    /\ IF ~sdk_dir(home[p]).ok \/ ~readable
       THEN /\ Fail(p, IF readable THEN "ConfigurationError" ELSE "FilesystemError")
            /\ Log(p, IF readable THEN "ConfigurationError" ELSE "FilesystemError")
            /\ UNCHANGED <<listed, table>>
       ELSE /\ listed' = [listed EXCEPT ![p] = installed_names(read_dir(fs, extras))]
            /\ table' = [table EXCEPT ![p] = get_language_packages]
            /\ pc' = [pc EXCEPT ![p] = "Done"]
            /\ outcome' = [outcome EXCEPT ![p] = "Listed"]
            /\ exitCode' = [exitCode EXCEPT ![p] = 0]
            /\ UNCHANGED trace
    /\ UNCHANGED <<fs, raced, home, lang, line, url, body, off, args, loaded, fs0, engine,
                   installedOk, extras>>

\* sdk_list, lines 138-155.  readable: read_dir returned Ok; it returns Err
\* when SdkRoot does not exist or cannot be read, and nothing is listed then.
SdkList(p, readable) ==
    /\ pc[p] = "sdk_list"
    /\ IF ~sdk_dir(home[p]).ok
       THEN /\ Fail(p, "ConfigurationError")
            /\ Log(p, "ConfigurationError")
            /\ UNCHANGED <<listed, table>>
       ELSE /\ listed' = [listed EXCEPT ![p] =
                  IF readable THEN installed_names(read_dir(fs, extras)) ELSE {}]
            /\ table' = [table EXCEPT ![p] = get_language_packages]
            /\ pc' = [pc EXCEPT ![p] = "Done"]
            /\ outcome' = [outcome EXCEPT ![p] = IF readable THEN "Listed" ELSE "ListedUnread"]
            /\ exitCode' = [exitCode EXCEPT ![p] = 0]
            /\ UNCHANGED trace
    /\ UNCHANGED <<fs, raced, home, lang, line, url, body, off, args, loaded, fs0, engine,
                   installedOk, extras>>

\* ------------------------------------------------------- specifications
Running(p) == pc[p] \notin {"Idle", "Done"}

Homes == {HomeDir, NoHome}

\* One step of process p; the lines typed and the bodies served (by the URL,
\* or written by the wasmer subprocess) are drawn from the given sets.
StepIn(p, lines, urlLines, bodies) ==
    \/ CacheCheck(p)
    \/ \E input \in lines : PromptUser(p, input)
    \/ PromptError(p)
    \/ \E input \in urlLines : RequestUrl(p, input)
    \/ \E dirOk \in BOOLEAN : WasmerPrepare(p, dirOk)
    \/ WasmerUnavailable(p)
    \/ \E success, wrote \in BOOLEAN : \E data \in bodies :
           WasmerStatus(p, success, wrote, data)
    \/ \E dirOk \in BOOLEAN : UrlPrepare(p, dirOk)
    \/ \E fileOk \in BOOLEAN : UrlCreate(p, fileOk)
    \/ \E b \in bodies : UrlGet(p, b)
    \/ DownloadFailed(p)
    \/ \E n \in 1..(MaxLen + 1) : UrlCopyChunk(p, n)
    \/ UrlCopyDone(p)
    \/ \E valid \in BOOLEAN : RunSdk(p, valid)
    \/ \E r \in EngineResults : Instantiate(p, r)

Step(p) == StepIn(p, Lines, UrlLines, Bodies)

\* A run request with any language argument and any environment.
Start(p) == \E l \in Langs : \E h \in Homes : StartRun(p, l, h)

\* One process at a time: run requests follow one another.
Main == 1

\* A second invocation of the binary on the same SdkRoot.
Other == 2

Next == Start(Main) \/ Step(Main)

Spec == Init /\ [][Next]_vars

\* What process p downloads consists of bytes p, so that the origin of every
\* byte of an artifact shows.
ConcBodies(p) == SeqsUpTo({p}, MaxLen)

\* The lines typed where what matters is the order of the steps.
YesNo == {<<"y">>, <<"n">>}
OneUrl == {<<"u">>}

ConcStep(p) == StepIn(p, YesNo, OneUrl, ConcBodies(p))

FairNext == Start(Main) \/ ConcStep(Main)

\* Every external call returns: a running process takes its next step.
FairSpec == Init /\ [][FairNext]_vars /\ WF_vars(ConcStep(Main))

\* Run and sdk-list requests in sequence on an SdkRoot that may hold foreign
\* entries.
ListInit == \E ex \in SUBSET ExtraEntries : InitWith(ex)

ListStart(p) == \E h \in Homes : StartList(p, h)

ListNext ==
    \/ Start(Main)
    \/ ListStart(Main)
    \/ ConcStep(Main)
    \/ \E readable \in BOOLEAN : SdkList(Main, readable)

ListSpec == ListInit /\ [][ListNext]_vars

\* Run requests and direct calls of the Registry installer, in sequence.
UnitNext ==
    \/ Start(Main)
    \/ \E name \in CallNames : \E h \in Homes : CallInstallViaWasmer(Main, name, h)
    \/ ConcStep(Main)

UnitSpec == Init /\ [][UnitNext]_vars

\* Two processes started at any time, each once: concurrent run requests on
\* one SdkRoot, which nothing locks.
ConcStart(p) ==
    /\ pc[p] = "Idle"
    /\ \E l \in Langs : StartRun(p, l, HomeDir)

ConcNext == \E p \in Procs : ConcStart(p) \/ ConcStep(p)

ConcSpec == Init /\ [][ConcNext]_vars

TypeOK ==
    /\ \A l \in Langs : fs[l].file => fs[l].dir
    /\ \A p \in Procs : exitCode[p] \in {-1, 0, 1}

\* ------------------------------------------------- vocabulary of the claims
Has(p, e) == \E i \in 1..Len(trace[p]) : trace[p][i] = e

\* Every occurrence of e in the run of p has an earlier occurrence of one of ds.
Precedes(p, ds, e) ==
    \A i \in 1..Len(trace[p]) :
        trace[p][i] = e => \E j \in 1..(i - 1) : trace[p][j] \in ds

InstallErrors == {"UnsupportedLanguage", "PackageManagerUnavailable", "InstallFailed",
                  "DownloadFailed", "FilesystemError"}

HasInstallError(p) == \E e \in InstallErrors : Has(p, e)

\* The Registry of the specification, written out.
RegistryKeys == {"python", "javascript", "ruby"}

\* s is a single y or Y surrounded by blanks only.
IsYes(s) ==
    \E i \in 1..Len(s) :
        /\ s[i] \in {"y", "Y"}
        /\ \A j \in 1..Len(s) : j # i => s[j] = " "

\* t is s without its leading and trailing blanks.
IsTrimOf(t, s) ==
    /\ t # <<>> => t[1] # " " /\ t[Len(t)] # " "
    /\ \E a \in 0..Len(s) :
          /\ a + Len(t) <= Len(s)
          /\ \A i \in 1..Len(s) :
                IF i > a /\ i <= a + Len(t) THEN s[i] = t[i - a] ELSE s[i] = " "

\* C1: whenever a Registry or URL install returned success, the artifact file
\* exists right afterwards and the execution that follows does not fail with
\* ModuleNotFound.
C1_ArtifactExistsAfterInstall ==
    \A p \in Procs :
        Has(p, "InstallOk") =>
            /\ pc[p] = "run_sdk" => exists(fs, lang[p])
            /\ engine[p] # "ModuleNotFound"

\* C2 (as stated): run_sdk is entered only in a run whose existence check of
\* the artifact path returned true.
C2_EngineOnlyAfterHit ==
    \A p \in Procs : Has(p, "Engine") => Has(p, "Hit")

\* C2 (amended): run_sdk is entered only after the existence check returned
\* true or an installer returned success in that run, and whatever it loaded
\* is the content of a file that exists.
C2_EngineOnlyAfterHitOrInstall ==
    \A p \in Procs :
        /\ Precedes(p, {"Hit", "InstallOk"}, "Engine")
        /\ pc[p] \in {"run_sdk", "instantiate"} => Has(p, "Hit") \/ Has(p, "InstallOk")
        /\ pc[p] = "instantiate" => exists(fs, lang[p]) /\ loaded[p] = fs[lang[p]].data

C2_Witness ==
    /\ pc[Main] = "instantiate"
    /\ ~Has(Main, "Hit")
    /\ Has(Main, "InstallOk")
    /\ loaded[Main] # <<>>

\* C3: a Registry language without artifact and an answer that is not y/Y
\* after trimming: Aborted, exit status non-zero, no installer, no engine,
\* filesystem as it was when the run started.
C3_DeclineAborts ==
    \A p \in Procs :
        (lang[p] \in RegistryKeys /\ Has(p, "Miss") /\ Has(p, "Answer") /\ ~IsYes(line[p]))
        => /\ pc[p] = "Done"
           /\ outcome[p] = "Aborted"
           /\ exitCode[p] = 1
           /\ trace[p] = <<"Miss", "Prompt", "Answer">>
           /\ args[p] = <<>>
           /\ engine[p] = "None"
           /\ fs = fs0[p]

C3_Witness ==
    /\ lang[Main] = "python"
    /\ line[Main] = <<"n">>
    /\ outcome[Main] = "Aborted"
    /\ fs0[Main]["cobol"].file

\* C4: a Registry language without artifact and the answer y or Y: the
\* installer is entered, the subprocess (if launched) gets exactly the package
\* of the language and the directory SdkRoot/L, and the engine is entered only
\* after the installer returned success.
C4_AcceptInstallsThenRuns ==
    \A p \in Procs :
        (lang[p] \in RegistryKeys /\ Has(p, "Miss") /\ Has(p, "Answer") /\ IsYes(line[p]))
        => /\ pc[p] = "install_via_wasmer" \/ Has(p, "InstallViaRegistry")
           /\ outcome[p] # "Aborted"
           /\ args[p] # <<>> =>
                 /\ Has(p, "InstallViaRegistry")
                 /\ lang[p] = "python" =>
                       args[p] = <<"wasmer", "install", "wasmer/python", "--to",
                                   <<HomeDir, ".rchidrun/plugins", "python">> >>
           /\ Has(p, "InstallOk") => args[p] # <<>>
           /\ Precedes(p, {"InstallOk"}, "Engine")
           /\ Precedes(p, {"InstallViaRegistry"}, "InstallOk")
           /\ HasInstallError(p) => ~Has(p, "Engine")

C4_Witness ==
    /\ lang[Main] = "python"
    /\ line[Main] = <<"Y">>
    /\ Has(Main, "InstallOk")
    /\ Has(Main, "Invoke")

\* C5: a language outside the Registry without artifact: no yes/no prompt, no
\* Registry installer, no subprocess; the URL installer runs only after the
\* URL was read and gets the entered URL, the engine only after it succeeded.
C5_UnsupportedTakesUrlBranch ==
    \A p \in Procs :
        (lang[p] \notin RegistryKeys /\ Has(p, "Miss"))
        => /\ ~Has(p, "Prompt")
           /\ ~Has(p, "InstallViaRegistry")
           /\ args[p] = <<>>
           /\ pc[p] \in {"RequestUrl", "install_via_url", "File_create", "get", "copy",
                         "run_sdk", "instantiate", "Done"}
           /\ Precedes(p, {"UrlAnswer"}, "InstallViaUrl")
           /\ pc[p] = "install_via_url" \/ Has(p, "InstallViaUrl")
                 => Has(p, "UrlAnswer") /\ IsTrimOf(url[p], line[p])
           /\ Precedes(p, {"InstallViaUrl"}, "InstallOk")
           /\ Precedes(p, {"InstallOk"}, "Engine")

C5_Witness ==
    /\ lang[Main] = "cobol"
    /\ line[Main] = <<" ", "u">>
    /\ url[Main] = <<"u">>
    /\ Has(Main, "InstallOk")
    /\ Has(Main, "Engine")

\* C7: a run starts with the cache check; when the artifact exists at that
\* point the run goes straight to the engine: no prompt, no input read, no
\* installer, no subprocess, no write, whatever the language.
C7_CacheHitRunsDirectly ==
    \A p \in Procs :
        /\ trace[p] # <<>> => trace[p][1] \in {"Hit", "Miss", "ConfigurationError"}
        /\ (trace[p] # <<>> /\ home[p] # NoHome) =>
              (trace[p][1] = "Hit" <=> fs0[p][lang[p]].file)
        /\ Has(p, "Hit") =>
              /\ trace[p] \in {<<"Hit">>, <<"Hit", "Engine">>, <<"Hit", "Engine", "Invoke">>}
              /\ pc[p] \in {"run_sdk", "instantiate", "Done"}
              /\ pc[p] = "run_sdk" <=> trace[p] = <<"Hit">>
              /\ line[p] = <<>> /\ url[p] = <<>> /\ args[p] = <<>>
              /\ outcome[p] \in {"None", "Ready"}
              /\ fs = fs0[p]

C7_Witness ==
    /\ lang[Main] = "cobol"
    /\ trace[Main] = <<"Hit", "Engine", "Invoke">>
    /\ fs["python"].file

Rank(s) ==
    CASE s = "Idle" -> 0
      [] s = "CacheCheck" -> 1
      [] s \in {"PromptUser", "RequestUrl"} -> 2
      [] s \in {"install_via_wasmer", "install_via_url"} -> 3
      [] s \in {"wasmer_status", "File_create"} -> 4
      [] s = "get" -> 5
      [] s = "copy" -> 6
      [] s = "run_sdk" -> 7
      [] s = "instantiate" -> 8
      [] s = "Done" -> 9

IsReady(p) == Has(p, "Engine")
IsAborted(p) == trace[p] # <<>> /\ trace[p][Len(trace[p])] = "Answer"
IsFailed(p) == HasInstallError(p)
IsEarlyError(p) == Has(p, "ConfigurationError") \/ Has(p, "PromptError")

ExactlyOne(bs) == Cardinality({i \in 1..Len(bs) : bs[i]}) = 1

\* C8 (as stated): a finished run is exactly one of Ready, Aborted, Failed.
C8_ThreeOutcomes ==
    \A p \in Procs :
        pc[p] = "Done" => ExactlyOne(<<IsReady(p), IsAborted(p), IsFailed(p)>>)

\* C8 (amended): every run ends, in exactly one of Ready, Aborted, Failed or
\* an error raised before any installer was entered (HOME not set, prompt
\* I/O error); no position is entered twice, the only step that stays where
\* it is writes the next chunk of the download.
C8_RunEndsOnceNoRevisit ==
    /\ \A p \in Procs : (pc[p] = "CacheCheck") ~> (pc[p] = "Done")
    /\ [](\A p \in Procs :
            pc[p] = "Done" =>
               /\ ExactlyOne(<<IsReady(p), IsAborted(p), IsFailed(p), IsEarlyError(p)>>)
               /\ outcome[p] = "Ready" <=> IsReady(p)
               /\ outcome[p] = "Aborted" <=> IsAborted(p)
               /\ outcome[p] = "Failed" <=> IsFailed(p)
               /\ IsEarlyError(p) => ~Has(p, "InstallViaRegistry") /\ ~Has(p, "InstallViaUrl"))
    /\ [][\A p \in Procs :
            Running(p) =>
               \/ Rank(pc'[p]) > Rank(pc[p])
               \/ pc'[p] = "copy" /\ pc[p] = "copy" /\ off'[p] > off[p]]_vars

C8_Witness ==
    /\ pc[Main] = "Done"
    /\ outcome[Main] = "ConfigurationError"
    /\ fs["cobol"].file

\* C9: exit status 0 exactly when the engine was entered and the entry point
\* was called and returned without error; every other end is non-zero.
C9_ExitZeroIffEntryPointOk ==
    \A p \in Procs :
        /\ pc[p] = "Done" <=> exitCode[p] \in {0, 1}
        /\ exitCode[p] = 0 <=>
              /\ pc[p] = "Done"
              /\ Has(p, "Engine")
              /\ trace[p][Len(trace[p])] = "Invoke"
              /\ engine[p] = "Ok"
        /\ (pc[p] = "Done" /\ (outcome[p] # "Ready" \/ engine[p] # "Ok")) => exitCode[p] = 1

C9_Witness ==
    /\ pc[Main] = "Done"
    /\ exitCode[Main] = 0
    /\ Has(Main, "InstallOk")

\* C10: an installer failure ends the run as Failed with a non-zero exit
\* status, and the engine is not entered.
C10_InstallFailureEndsRun ==
    \A p \in Procs :
        HasInstallError(p) =>
            /\ pc[p] = "Done"
            /\ outcome[p] = "Failed"
            /\ exitCode[p] = 1
            /\ ~Has(p, "Engine") /\ ~Has(p, "Invoke") /\ ~Has(p, "InstallOk")
            /\ engine[p] = "None"
            /\ loaded[p] = <<>>
            /\ trace[p][Len(trace[p])] \in InstallErrors

C10_Witness ==
    /\ Has(Main, "InstallFailed")
    /\ fs[lang[Main]].file


\* C6: after a URL install that returned success and that no other process
\* wrote into, the artifact holds exactly the bytes of the response body,
\* whatever the file held before.
C6_UrlInstallStoresFetchedBytes ==
    \A p \in Procs :
        (Has(p, "InstallViaUrl") /\ Has(p, "InstallOk") /\ pc[p] = "run_sdk" /\ p \notin raced)
        => /\ exists(fs, lang[p])
           /\ fs[lang[p]].data = body[p]

\* The other process had installed a longer artifact before this one's
\* File::create.
C6_Witness ==
    /\ pc[Main] = "run_sdk"
    /\ Has(Main, "InstallViaUrl") /\ Has(Main, "InstallOk")
    /\ Main \notin raced
    /\ lang[Main] = "cobol"
    /\ body[Main] = <<1>>
    /\ Has(Other, "InstallOk")
    /\ body[Other] = <<2, 2>>
\* C11: with HOME not set, run and sdk-list end at once with the
\* configuration error: exit status 1, no prompt, no input read, no installer,
\* no subprocess, no engine, nothing listed, nothing written.
C11_NoHomeFailsAtOnce ==
    \A p \in Procs :
        (home[p] = NoHome /\ pc[p] \notin {"CacheCheck", "sdk_list"})
        => /\ pc[p] = "Done"
           /\ outcome[p] = "ConfigurationError"
           /\ exitCode[p] = 1
           /\ trace[p] = <<"ConfigurationError">>
           /\ line[p] = <<>> /\ url[p] = <<>> /\ args[p] = <<>>
           /\ engine[p] = "None" /\ loaded[p] = <<>>
           /\ listed[p] = {} /\ table[p] = {}
           /\ fs = fs0[p]

C11_Witness ==
    /\ home[Main] = NoHome
    /\ lang[Main] = NoLang
    /\ pc[Main] = "Done"
    /\ fs["cobol"].dir
    /\ extras # {}
InstallerPositions ==
    {"install_via_wasmer", "wasmer_status", "install_via_url", "File_create", "copy"}

\* C12: the entries under SdkRoot change only in a step of an installer, and
\* then only the directory and artifact of the language being installed; the
\* cache check, the prompts, the engine and sdk-list leave them as they are,
\* and an engine that found no artifact has made none.
C12_OnlyInstallersWrite ==
    /\ [][ /\ extras' = extras
           /\ fs' # fs =>
                \E p \in Procs :
                    /\ pc[p] \in InstallerPositions
                    /\ pc'[p] # pc[p] \/ off'[p] # off[p]
                    /\ \A l \in DOMAIN fs : l # lang[p] => fs'[l] = fs[l] ]_vars
    /\ [](\A p \in Procs :
            /\ engine[p] = "ModuleNotFound" => ~fs[lang[p]].file
            /\ outcome[p] \in {"Listed", "ListedUnread"} => fs = fs0[p])

C12_Witness ==
    /\ engine[Main] = "ModuleNotFound"
    /\ fs[lang[Main]].dir
    /\ ~fs[lang[Main]].file
    /\ extras # {}
\* C13: both strategies overwrite: once an installer has returned success,
\* and no other process wrote in between, the artifact holds nothing but what
\* that install produced (in ConcSpec the bytes that process p installs are all
\* p), whatever an earlier install of the language had left there.
C13_SecondInstallReplaces ==
    \A p \in Procs :
        (Has(p, "InstallOk") /\ pc[p] = "run_sdk" /\ p \notin raced /\ fs[lang[p]].file)
        => \A i \in 1..Len(fs[lang[p]].data) : fs[lang[p]].data[i] = p
\* C14: a process whose URL install returned success and into whose artifact
\* no other process wrote before it loaded it, loads exactly the bytes it
\* wrote.  (With an overlapping writer this fails: C14_Witness.)
C14_ReadSeesOwnWriteUnlessRaced ==
    \A p \in Procs :
        (Has(p, "InstallViaUrl") /\ Has(p, "InstallOk") /\ Has(p, "Engine") /\ p \notin raced)
        => /\ engine[p] # "ModuleNotFound"
           /\ loaded[p] = body[p]

\* Two URL installs of one language interleave: both return success, the
\* artifact is neither of the two bodies, and Main loads something else than
\* the bytes it wrote.
C14_Witness ==
    /\ lang[Main] = "cobol" /\ lang[Other] = "cobol"
    /\ Has(Main, "InstallOk") /\ Has(Other, "InstallOk")
    /\ Has(Main, "InstallViaUrl") /\ Has(Other, "InstallViaUrl")
    /\ fs["cobol"].data \notin {body[Main], body[Other]}
    /\ pc[Main] = "instantiate"
    /\ loaded[Main] = fs["cobol"].data
    /\ loaded[Main] # body[Main]
    /\ Main \in raced
\* The names of the immediate subdirectories of SdkRoot.
Subdirectories ==
    {l \in DOMAIN fs : fs[l].dir} \cup {e.name : e \in {x \in extras : x.dir}}

\* C15 (as stated): when SdkRoot was read, the installed section is exactly
\* the set of names of its immediate subdirectories.
C15_ListsEverySubdirectory ==
    \A p \in Procs : outcome[p] = "Listed" => listed[p] = Subdirectories

\* What sdk_list does print when SdkRoot was read: exactly the names of the
\* immediate subdirectories whose name is valid Unicode, in the Registry or
\* not; no other entry is listed.
ListsUnicodeSubdirectories ==
    \A p \in Procs :
        outcome[p] = "Listed" =>
            /\ listed[p] \subseteq Subdirectories
            /\ \A l \in DOMAIN fs : fs[l].dir => l \in listed[p]
            /\ \A e \in extras :
                  /\ (e.dir /\ e.utf8) => e.name \in listed[p]
                  /\ ~e.dir => e.name \notin listed[p]
                  /\ ~e.utf8 => e.name \notin listed[p]

ListsUnicodeSubdirectories_Witness ==
    /\ outcome[Main] = "Listed"
    /\ extras = ExtraEntries
    /\ fs["cobol"].dir
    /\ listed[Main] = {"cobol", "tools"}
\* The Registry table as sdk-list prints it.
RegistryTable ==
    { <<"python", "wasmer/python">>,
      <<"javascript", "wasmer/quickjs">>,
      <<"ruby", "wasmer/ruby">> }

\* p has finished an sdk-list request.
ListDone(p) == lang[p] = NoLang /\ pc[p] = "Done"

\* C16: an sdk-list request whose SdkRoot can be computed ends with exit
\* status 0 and the full Registry table printed, whatever the state of SdkRoot;
\* when SdkRoot could not be read or holds no entry the installed list is
\* empty.  Only a request without HOME ends with another status.
C16_ListSucceedsWhenRootComputed ==
    \A p \in Procs :
        ListDone(p) =>
            /\ home[p] # NoHome =>
                  /\ exitCode[p] = 0
                  /\ table[p] = RegistryTable
                  /\ outcome[p] \in {"Listed", "ListedUnread"}
                  /\ outcome[p] = "ListedUnread" => listed[p] = {}
                  /\ (extras = {} /\ \A l \in DOMAIN fs : ~fs[l].dir) => listed[p] = {}
            /\ exitCode[p] # 0 => home[p] = NoHome

\* An SdkRoot that holds directories could not be read: nothing is listed,
\* the table is printed, the status is 0.
C16_Witness ==
    /\ ListDone(Main)
    /\ home[Main] = HomeDir
    /\ outcome[Main] = "ListedUnread"
    /\ fs["python"].dir
    /\ listed[Main] = {}
    /\ table[Main] = RegistryTable
    /\ exitCode[Main] = 0
\* The names the Registry functions are compared on.
Names == CallNames \cup RegistryKeys \cup {"", "wasmer/python"}

\* C17: is_supported_language(name) holds exactly when get_wasmer_package(name)
\* is defined, exactly when name is literally a key of the Registry table; and
\* a Registry installer entered with a name outside the table has failed with
\* UnsupportedLanguage at once: no directory made, no subprocess launched.
C17_RegistryLookupExact ==
    /\ \A name \in Names :
          /\ is_supported_language(name) <=> get_wasmer_package(name) # {}
          /\ is_supported_language(name) <=> name \in RegistryKeys
    /\ \A p \in Procs :
          (Has(p, "InstallViaRegistry") /\ lang[p] \notin RegistryKeys)
          => /\ pc[p] = "Done"
             /\ outcome[p] = "Failed"
             /\ exitCode[p] = 1
             /\ trace[p] = <<"Call", "InstallViaRegistry", "UnsupportedLanguage">>
             /\ fs = fs0[p]
             /\ args[p] = <<>>

C17_Witness ==
    /\ lang[Main] = "Python"
    /\ home[Main] = HomeDir
    /\ Has(Main, "UnsupportedLanguage")
    /\ pc[Main] = "Done"
    /\ \E l \in Langs : fs[l].dir
\* The number of events of the run of p that are in es.
Count(p, es) == Cardinality({i \in 1..Len(trace[p]) : trace[p][i] \in es})

InstallerEntries == {"InstallViaRegistry", "InstallViaUrl"}
InstallerResults == {"InstallOk"} \cup InstallErrors

\* C18: within one run request an installer is entered at most once and
\* returns at most once, the artifact is loaded at most once and the entry
\* point invoked at most once; once the engine has reported an error the run
\* is over with status 1 and that engine step is the last event of the run.
C18_NothingRetried ==
    \A p \in Procs :
        /\ Count(p, InstallerEntries) <= 1
        /\ Count(p, InstallerResults) <= 1
        /\ Count(p, {"Engine"}) <= 1
        /\ Count(p, {"Invoke"}) <= 1
        /\ engine[p] \notin {"None", "Ok"} =>
              /\ pc[p] = "Done"
              /\ exitCode[p] = 1
              /\ trace[p][Len(trace[p])] \in {"Engine", "Invoke"}

\* A run that installed, loaded the artifact and trapped in the entry point.
C18_Witness ==
    /\ pc[Main] = "Done"
    /\ engine[Main] = "ExecutionTrap"
    /\ Count(Main, InstallerEntries) = 1
    /\ Has(Main, "InstallOk")
    /\ Count(Main, {"Invoke"}) = 1
\* C19: between run requests a file exists at artifactPath(L) only if some
\* install for L has returned success; a URL install that ended in
\* DownloadFailed has left no file, and a run takes the cache-hit path only
\* for a language some install of which succeeded.
C19_ArtifactOnlyAfterSuccessfulInstall ==
    /\ \A p \in Procs : Has(p, "DownloadFailed") => ~fs[lang[p]].file
    /\ \A p \in Procs : Has(p, "Hit") => lang[p] \in installedOk
    /\ (\A p \in Procs : ~Running(p)) => \A l \in Langs : fs[l].file => l \in installedOk
\* C20: every language sdk-list reports as installed has its artifact file:
\* no failed or aborted install has left a language directory without one.
C20_ListedHaveArtifact ==
    \A p \in Procs :
        outcome[p] = "Listed" =>
            \A l \in listed[p] \cap Langs : fs[l].file
====
